---- MODULE Spec2Model ----
(***************************************************************************)
(* Model of the Modbus/TCP data block of the two servers of the           *)
(* repository, src/ymodbustcp.py and its plainer forerunner src/main.py:   *)
(* a device map (register number -> Yoctopuce sensor, and in ymodbustcp    *)
(* an encoding) is loaded, a YoctopuceDataBlock is built over it, and the  *)
(* Modbus server then calls getValues / setValues on the block while the   *)
(* sensors change.                                                         *)
(*                                                                         *)
(* A sensor measurement is a binary floating point number                  *)
(*      (-1)^neg * m * 2^e                                                 *)
(* kept as the record [neg, m, e]; a Python int (unbounded) is kept the    *)
(* same way with e >= 0.  The payload builder's struct.pack calls are      *)
(* modelled with their range checks and their two's-complement / IEEE-754  *)
(* bit layouts, on 16-bit register words.                                  *)
(***************************************************************************)
EXTENDS Integers, Sequences, FiniteSets, TLC

VARIABLES
    program,    \* "ymodbustcp" | "main": which of the two servers runs
    phase,      \* "boot" | "serving" | "crashed"   (run_callback_server)
    stream,     \* the lines of device-mapping.txt, as <<regno, hwid, encoding>>
    devices,    \* YoctopuceDataBlock.devices: regno -> YocotpuceBinding
                \* (in main.py: regno -> hwid)
    values,     \* ModbusSparseDataBlock.values: address -> stored Python value
    sensor,     \* hwid -> what YSensor.get_currentValue() returns right now
    last        \* the last call made on the block and what it returned

vars == <<program, phase, stream, devices, values, sensor, last>>

----------------------------------------------------------------------------
(* Bounds of the model *)

MaxEntries == 2     \* lines in the device map
MaxCount == 2       \* registers asked for by one read

----------------------------------------------------------------------------
(* Arithmetic helpers *)

Pow2(k) == 2 ^ k

RECURSIVE BitLen(_)
BitLen(n) == IF n <= 0 THEN 0 ELSE 1 + BitLen(n \div 2)

----------------------------------------------------------------------------
(* Numbers: (-1)^neg * m * 2^e, with m odd (or zero) so that equal numbers *)
(* are equal records                                                       *)

RECURSIVE Num(_, _, _)
Num(neg, m, e) ==
    IF m = 0 THEN [neg |-> FALSE, m |-> 0, e |-> 0]
    ELSE IF m % 2 = 0 THEN Num(neg, m \div 2, e + 1)
    ELSE [neg |-> neg, m |-> m, e |-> e]

----------------------------------------------------------------------------
(* Results of a call: a returned list (of bytes, of register words), a     *)
(* returned int, None, or an exception                                     *)

Ok(ws) == [kind |-> "ok", words |-> ws, num |-> Num(FALSE, 0, 0), exc |-> ""]
OkInt(i) == [kind |-> "int", words |-> <<>>, num |-> i, exc |-> ""]
None == [kind |-> "none", words |-> <<>>, num |-> Num(FALSE, 0, 0), exc |-> ""]
Raise(e) == [kind |-> "raise", words |-> <<>>, num |-> Num(FALSE, 0, 0), exc |-> e]


----------------------------------------------------------------------------
(* The sensors: what YSensor.get_currentValue() can return *)

Hwids == {"METEO.temperature", "METEO.humidity"}

\* YSensor.CURRENTVALUE_INVALID, returned while the device is unreachable:
\* -DBL_MAX, here with its 11 leading significant bits (-(2^11 - 1) * 2^1013).
CURRENTVALUE_INVALID == Num(TRUE, 2047, 1013)

\* Seen from the block a device is unavailable exactly when its sensor
\* hands back CURRENTVALUE_INVALID.
Unavailable(sens, hwid) == sens[hwid] = CURRENTVALUE_INVALID

Samples ==
    { Num(FALSE, 47, -1),       \*  23.5
      Num(TRUE, 257, -1),       \* -128.5   (truncates to -128, floors to -129)
      Num(FALSE, 25, 3),        \*  200     (beyond int8)
      Num(TRUE, 1025, 5),       \* -32800   (beyond int16)
      Num(FALSE, 1, 31),        \*  2^31    (beyond int32 and float16)
      CURRENTVALUE_INVALID }

----------------------------------------------------------------------------
(* struct.pack, as BinaryPayloadBuilder uses it (byteorder = Endian.Big)   *)

\* int(val): truncation toward zero, to an unbounded Python int
PyInt(v) ==
    IF v.e >= 0 THEN v ELSE Num(v.neg, v.m \div Pow2(-v.e), 0)

\* -2^(w-1) <= i <= 2^(w-1) - 1, decided on the bit length of |i|
FitsSigned(i, w) ==
    LET bits == IF i.m = 0 THEN 0 ELSE BitLen(i.m) + i.e
    IN  IF i.neg
        THEN bits <= w - 1 \/ (bits = w /\ i.m = Pow2(BitLen(i.m) - 1))
        ELSE bits <= w - 1

\* |i| < 2^32 as <<high word, low word>>
MagWords(i) ==
    IF i.e >= 16 THEN <<i.m * Pow2(i.e - 16), 0>>
    ELSE LET d == Pow2(16 - i.e)
         IN  <<i.m \div d, (i.m % d) * Pow2(i.e)>>

\* two's complement of i on 32 bits, as <<high word, low word>>
Signed32(i) ==
    LET mw == MagWords(i)
    IN  IF ~i.neg THEN mw
        ELSE IF mw[2] = 0 THEN <<(Pow2(16) - mw[1]) % Pow2(16), 0>>
        ELSE <<Pow2(16) - 1 - mw[1], Pow2(16) - mw[2]>>

BytesOf(w) == <<w \div 256, w % 256>>

\* pack('>b', i), pack('>h', i), pack('>i', i): bytes, or struct.error
PackInt(i, w) ==
    IF ~FitsSigned(i, w) THEN Raise("struct.error")
    ELSE LET s == Signed32(i)
         IN  CASE w = 8  -> Ok(<<s[2] % 256>>)
               [] w = 16 -> Ok(BytesOf(s[2]))
               [] w = 32 -> Ok(BytesOf(s[1]) \o BytesOf(s[2]))

\* pack('>e', v) (expBits = 5, fracBits = 10) and pack('>f', v) (8, 23):
\* the IEEE-754 pattern as <<high word, low word>>, or OverflowError when
\* the value is too large for the format.  Every sample has at most 11
\* significant bits and a normal exponent, so the conversion is exact.
PackFloat(v, expBits, fracBits) ==
    IF v.m = 0 THEN Ok(IF fracBits = 10 THEN <<0, 0>> ELSE <<0, 0, 0, 0>>)
    ELSE LET L    == BitLen(v.m)
             E    == v.e + L - 1
             bias == Pow2(expBits - 1) - 1
             frac == (v.m - Pow2(L - 1)) * Pow2(fracBits + 1 - L)
             sign == IF v.neg THEN Pow2(15) ELSE 0
         IN  IF E > bias THEN Raise("OverflowError")
             ELSE IF fracBits = 10
                  THEN Ok(BytesOf(sign + (E + bias) * Pow2(10) + frac))
                  ELSE Ok(BytesOf(sign + (E + bias) * Pow2(7) + frac \div Pow2(16))
                          \o BytesOf(frac % Pow2(16)))

\* BinaryPayloadBuilder.to_registers(): the payload is zero-padded to an
\* even length and cut into big-endian 16-bit words
RECURSIVE to_registers(_)
to_registers(bytes) ==
    IF bytes = <<>> THEN <<>>
    ELSE IF Len(bytes) = 1 THEN <<bytes[1] * 256>>
    ELSE <<bytes[1] * 256 + bytes[2]>> \o to_registers(SubSeq(bytes, 3, Len(bytes)))

----------------------------------------------------------------------------
(* class YocotpuceBinding *)

KnownEncodings == {"int8", "int16", "int32", "float16", "float32"}

YocotpuceBinding(reg_no, hwid, encoding) ==
    [reg_no |-> reg_no, hwid |-> hwid, encoding |-> encoding]

\* the bytes the builder holds after the if/elif chain: nothing was added
\* when no branch matched
BuilderPayload(encoding, val) ==
    CASE encoding = "int8"    -> PackInt(PyInt(val), 8)
      [] encoding = "int16"   -> PackInt(PyInt(val), 16)
      [] encoding = "int32"   -> PackInt(PyInt(val), 32)
      [] encoding = "float16" -> PackFloat(val, 5, 10)
      [] encoding = "float32" -> PackFloat(val, 8, 23)
      [] OTHER                -> Ok(<<>>)

encode_value(self, val) ==
    LET p == BuilderPayload(self.encoding, val)
    IN  IF p.kind = "raise" THEN p ELSE Ok(to_registers(p.words))

\* a binding that keeps the measure taken when the block was built
get_encoded_measure_cached(self, sens) ==
    IF self.reg_no \in DOMAIN values /\ values[self.reg_no].list
    THEN Ok(values[self.reg_no].words)
    ELSE encode_value(self, sens[self.hwid])

get_encoded_measure(self, sens) == encode_value(self, sens[self.hwid])

get_hwid(self) == self.hwid

----------------------------------------------------------------------------
(* Python values kept in a dict: a list of words, or a single int *)

PyList(ws) == [list |-> TRUE, words |-> ws, num |-> Num(FALSE, 0, 0)]
PyNum(i) == [list |-> FALSE, words |-> <<>>, num |-> i]

Put(d, k, x) == [j \in DOMAIN d \cup {k} |-> IF j = k THEN x ELSE d[j]]

----------------------------------------------------------------------------
(* read_device_map: one entry per line, keyed by the register number; a    *)
(* line is <<int(piece[0], 16), piece[1], piece[2]>> (main.py reads only   *)
(* the first two pieces and keeps the hwid itself)                         *)

RECURSIVE ReadLines(_, _)
ReadLines(devs, lines) ==
    IF lines = <<>> THEN devs
    ELSE LET piece == Head(lines)
             hwid  == piece[2]
             regno == piece[1]
         IN  ReadLines(Put(devs, regno, YocotpuceBinding(regno, hwid, piece[3])),
                       Tail(lines))

read_device_map(path) == ReadLines([k \in {} |-> 0], path)

RECURSIVE main_ReadLines(_, _)
main_ReadLines(devs, lines) ==
    IF lines = <<>> THEN devs
    ELSE LET piece == Head(lines)
             hwid  == piece[2]
         IN  main_ReadLines(Put(devs, piece[1], hwid), Tail(lines))

main_read_device_map(path) == main_ReadLines([k \in {} |-> 0], path)

----------------------------------------------------------------------------
(* class YoctopuceDataBlock(ModbusSparseDataBlock), src/ymodbustcp.py *)

BEEF == 48879

DataBlock(devs, vals) == [devices |-> devs, values |-> vals]

\* __init__: the dict handed to ModbusSparseDataBlock.__init__
InitValues(devs, sens) ==
    LET vals == [reg \in DOMAIN devs |->
                    PyList(get_encoded_measure(devs[reg], sens).words)]
    IN  Put(vals, BEEF, PyNum(Num(FALSE, Cardinality(DOMAIN vals), 0)))

\* __init__: the exceptions get_encoded_measure can raise inside the loop
InitFailures(devs, sens) ==
    { r \in { get_encoded_measure(devs[reg], sens) : reg \in DOMAIN devs } :
        r.kind = "raise" }

\* ModbusSparseDataBlock.setValues(address, values) for a list of values
SparseSetValues(vals, address, value) ==
    LET written == { address + idx : idx \in 0 .. Len(value) - 1 }
    IN  [a \in DOMAIN vals \cup written |->
            IF a \in written
            THEN PyNum(Num(FALSE, value[a - address + 1], 0))
            ELSE vals[a]]

\* setValues: the block after the call, and what the call returns
YoctopuceDataBlock_setValues(self, address, value) ==
    [self |-> DataBlock(self.devices, SparseSetValues(self.values, address, value)),
     ret  |-> None]

\* ModbusSparseDataBlock.getValues(address, count), the line main.py left
\* commented out: the stored values of the window, KeyError on a gap
RECURSIVE StoredWords(_, _, _)
StoredWords(vals, address, count) ==
    IF count = 0 THEN <<>>
    ELSE LET x == vals[address]
         IN  (IF x.list THEN x.words ELSE <<x.num.m * Pow2(x.num.e)>>)
                 \o StoredWords(vals, address + 1, count - 1)

getValues_fromStore(self, sens, address, count) ==
    IF \E i \in 0 .. count - 1 : address + i \notin DOMAIN self.values
    THEN [self |-> self, ret |-> Raise("KeyError")]
    ELSE [self |-> self, ret |-> Ok(StoredWords(self.values, address, count))]

\* a getValues that forgets a binding whose sensor could not be read
getValues_dropFailed(self, sens, address, count) ==
    IF address \notin DOMAIN self.devices
    THEN [self |-> self, ret |-> Raise("KeyError")]
    ELSE LET r == get_encoded_measure(self.devices[address], sens)
             kept == [k \in DOMAIN self.devices \ {address} |-> self.devices[k]]
         IN  IF r.kind = "raise"
             THEN [self |-> DataBlock(kept, self.values), ret |-> r]
             ELSE [self |-> self, ret |-> r]

\* a getValues that stores what it read
getValues_caching(self, sens, address, count) ==
    IF address \notin DOMAIN self.devices
    THEN [self |-> self, ret |-> Raise("KeyError")]
    ELSE LET r == get_encoded_measure(self.devices[address], sens)
         IN  IF r.kind = "raise" THEN [self |-> self, ret |-> r]
             ELSE [self |-> DataBlock(self.devices,
                                      Put(self.values, address, PyList(r.words))),
                   ret  |-> r]

\* getValues: the block after the call, and what the call returns or raises
YoctopuceDataBlock_getValues(self, sens, address, count) ==
    IF address \notin DOMAIN self.devices
    THEN [self |-> self, ret |-> Raise("KeyError")]
    ELSE [self |-> self, ret |-> get_encoded_measure(self.devices[address], sens)]

----------------------------------------------------------------------------
(* class YoctopuceDataBlock(ModbusSparseDataBlock), src/main.py *)

\* int(sensor.get_currentValue() * 1000): the product overflows to an
\* infinity from 2^1024 on, and int() of an infinity raises OverflowError
main_measure(val) ==
    LET p == Num(val.neg, val.m * 1000, val.e)
    IN  IF BitLen(p.m) + p.e > 1024 THEN Raise("OverflowError")
        ELSE OkInt(PyInt(p))

main_InitValues(devs, sens) ==
    LET vals == [reg \in DOMAIN devs |-> PyNum(main_measure(sens[devs[reg]]).num)]
    IN  Put(vals, BEEF, PyNum(Num(FALSE, Cardinality(DOMAIN vals), 0)))

main_InitFailures(devs, sens) ==
    { r \in { main_measure(sens[devs[reg]]) : reg \in DOMAIN devs } :
        r.kind = "raise" }

main_setValues(self, address, value) ==
    [self |-> DataBlock(self.devices, SparseSetValues(self.values, address, value)),
     ret  |-> None]

main_getValues(self, sens, address, count) ==
    IF address \notin DOMAIN self.devices
    THEN [self |-> self, ret |-> Raise("KeyError")]
    ELSE [self |-> self, ret |-> main_measure(sens[self.devices[address]])]

----------------------------------------------------------------------------
(* The inputs *)

RegNos == {16, 17}
EncodingNames == KnownEncodings \cup {"int9"}

\* device maps of the block specification: up to MaxEntries lines, each
\* publishing the temperature as a one-word integer or the humidity as a
\* two-word integer (main.py's lines carry no encoding)
Lines ==
    { <<regno, "METEO.temperature", "int16">> : regno \in RegNos } \cup
    { <<regno, "METEO.humidity", "int32">> : regno \in RegNos }
DeviceMaps == UNION { [1 .. n -> Lines] : n \in 0 .. MaxEntries }
main_Lines == RegNos \X Hwids
main_DeviceMaps == UNION { [1 .. n -> main_Lines] : n \in 0 .. MaxEntries }
BlockSamples == { Num(FALSE, 47, -1), Num(FALSE, 25, 3), CURRENTVALUE_INVALID }

\* device maps of the encoder specification: one line, any encoding name
EncoderMaps == { <<l>> : l \in {16} \X {"METEO.temperature"} \X EncodingNames }

ReadAddresses == RegNos \cup {18, BEEF}
Counts == 1 .. MaxCount
WriteAddresses == {16, BEEF}
WriteValues == { <<7, 8>> }

Call(op, address, count, ret) ==
    [op |-> op, address |-> address, count |-> count, ret |-> ret]

----------------------------------------------------------------------------
(* The state machine *)

Boot ==
    /\ phase = "boot"
    /\ devices = [k \in {} |-> 0]
    /\ values = [k \in {} |-> 0]
    /\ last = Call("none", 0, 0, None)

\* the sensors the device map names; the server never looks at another
\* one, so the others stay at their first reading
Mapped(lines) == { lines[i][2] : i \in DOMAIN lines }

Init ==
    /\ \/ program = "ymodbustcp" /\ stream \in DeviceMaps
       \/ program = "main" /\ stream \in main_DeviceMaps
    /\ sensor \in { f \in [Hwids -> BlockSamples] :
                      \A h \in Hwids \ Mapped(stream) : f[h] = Num(FALSE, 47, -1) }
    /\ Boot

\* ymodbustcp with one binding of any encoding over a sensor that takes
\* every sample
InitEncoder ==
    /\ program = "ymodbustcp"
    /\ stream \in EncoderMaps
    /\ sensor \in { f \in [Hwids -> Samples] : f["METEO.humidity"] = Num(FALSE, 47, -1) }
    /\ Boot

\* run_callback_server: devices = read_device_map(...), then
\* block = YoctopuceDataBlock(devices).  An exception raised while the
\* block is built ends the process; which entry raises first depends on
\* the dict's iteration order.
run_callback_server ==
    /\ phase = "boot"
    /\ LET ymod  == program = "ymodbustcp"
           devs  == IF ymod THEN read_device_map(stream)
                    ELSE main_read_device_map(stream)
           fails == IF ymod THEN InitFailures(devs, sensor)
                    ELSE main_InitFailures(devs, sensor)
       IN  /\ devices' = devs
           /\ IF fails = {}
              THEN /\ phase' = "serving"
                   /\ values' = IF ymod THEN InitValues(devs, sensor)
                                ELSE main_InitValues(devs, sensor)
                   /\ last' = Call("init", 0, 0, None)
              ELSE /\ phase' = "crashed"
                   /\ values' = values
                   /\ \E f \in fails : last' = Call("init", 0, 0, f)
    /\ UNCHANGED <<program, stream, sensor>>

\* the server reads registers: block.getValues(address, count); an
\* exception is turned into a Modbus error reply and the server goes on
getValues(address, count) ==
    /\ phase = "serving"
    /\ LET self == DataBlock(devices, values)
           r    == IF program = "ymodbustcp"
                   THEN YoctopuceDataBlock_getValues(self, sensor, address, count)
                   ELSE main_getValues(self, sensor, address, count)
       IN  /\ devices' = r.self.devices
           /\ values' = r.self.values
           /\ last' = Call("read", address, count, r.ret)
    /\ UNCHANGED <<program, phase, stream, sensor>>

\* the server writes registers: block.setValues(address, value)
setValues(address, value) ==
    /\ phase = "serving"
    /\ LET self == DataBlock(devices, values)
           r    == IF program = "ymodbustcp"
                   THEN YoctopuceDataBlock_setValues(self, address, value)
                   ELSE main_setValues(self, address, value)
       IN  /\ devices' = r.self.devices
           /\ values' = r.self.values
           /\ last' = Call("write", address, Len(value), r.ret)
    /\ UNCHANGED <<program, phase, stream, sensor>>

\* the physical quantity behind a sensor changes, or its device goes
\* away or comes back
SensorChange(hwid, val) ==
    /\ phase = "serving"
    /\ hwid \in Mapped(stream)
    /\ val # sensor[hwid]
    /\ sensor' = [sensor EXCEPT ![hwid] = val]
    /\ last' = Call("sensor", 0, 0, None)
    /\ UNCHANGED <<program, phase, stream, devices, values>>

Next ==
    \/ run_callback_server
    \/ \E address \in ReadAddresses, count \in Counts : getValues(address, count)
    \/ \E address \in WriteAddresses, value \in WriteValues : setValues(address, value)
    \/ \E hwid \in Hwids, val \in BlockSamples : SensorChange(hwid, val)

Spec == Init /\ [][Next]_vars

NextEncoder ==
    \/ run_callback_server
    \/ \E address \in ReadAddresses, count \in Counts : getValues(address, count)
    \/ \E val \in Samples : SensorChange("METEO.temperature", val)

SpecEncoder == InitEncoder /\ [][NextEncoder]_vars

----------------------------------------------------------------------------
(* Vocabulary of the properties *)

IsRead == phase = "serving" /\ last.op = "read"

Bound(a) == a \in DOMAIN devices

HwidOf(devs, a) == IF program = "main" THEN devs[a] ELSE get_hwid(devs[a])

\* what the running program makes of a reading: the register words of the
\* binding's encoding, or main.py's int of milli-units
Encoding(devs, sens, a) ==
    IF program = "main" THEN main_measure(sens[devs[a]])
    ELSE encode_value(devs[a], sens[devs[a].hwid])

\* the dict entry a returned value would make
Stored(ret) == IF ret.kind = "int" THEN PyNum(ret.num) ELSE PyList(ret.words)

\* address a holds a word some setValues call put there
Written(a) ==
    /\ a \in DOMAIN values
    /\ \E value \in WriteValues : \E i \in DOMAIN value :
          values[a] = PyNum(Num(FALSE, value[i], 0))

\* what block.getValues(a, c) would hand back in a given state
ReadResult(devs, vals, sens, a, c) ==
    IF program = "main" THEN main_getValues(DataBlock(devs, vals), sens, a, c).ret
    ELSE YoctopuceDataBlock_getValues(DataBlock(devs, vals), sens, a, c).ret

\* the register count the design gives each encoding
wordCountOf(encoding) ==
    CASE encoding \in {"int8", "int16", "float16"} -> 1
      [] encoding \in {"int32", "float32"} -> 2
      [] OTHER -> 0

\* the registers a binding of the device map occupies
Footprint(devs, reg) ==
    IF program = "main" THEN {reg}
    ELSE reg .. reg + wordCountOf(devs[reg].encoding) - 1

LineFootprint(line) ==
    IF program = "main" THEN {line[1]}
    ELSE line[1] .. line[1] + wordCountOf(line[3]) - 1

Overlapping(lines) ==
    \E i, j \in DOMAIN lines :
        i # j /\ LineFootprint(lines[i]) \cap LineFootprint(lines[j]) # {}

Zeros(n) == [i \in 1 .. n |-> 0]

----------------------------------------------------------------------------
(* Properties *)

\* C1: whatever was written before, to the address itself or elsewhere, a
\* read of a bound address returns what the program makes of the sensor's
\* current value (or raises as that conversion raises); the stored values
\* play no part.
C1_ReadIsLiveAfterWrites ==
    (IsRead /\ Bound(last.address))
        => last.ret = Encoding(devices, sensor, last.address)

\* a bound address was written, then read, and the read returned a value
C1_Witness ==
    /\ IsRead /\ Bound(last.address)
    /\ Written(last.address)
    /\ last.ret.kind # "raise"

\* C2: a read step on a bound address returns the encoding of the value
\* the sensor has when the step is taken, whatever it was when the block
\* was built or read before.
C2_ReadFetchesCurrentValue ==
    [][ (phase = "serving" /\ last'.op = "read" /\ Bound(last'.address))
            => last'.ret = Encoding(devices, sensor, last'.address) ]_vars

\* a read returned a value that differs from the one stored for that
\* address when the block was built
C2_Witness ==
    /\ IsRead /\ Bound(last.address)
    /\ last.ret.kind # "raise"
    /\ ~Written(last.address)
    /\ values[last.address] # Stored(last.ret)

\* C3: a read whose window lies inside one binding's footprint returns
\* count words, the matching slice of the binding's encoded value.
C3_WindowInsideFootprint ==
    (IsRead /\ program = "ymodbustcp" /\ ~Overlapping(stream))
        => \A b \in DOMAIN devices :
              LET full == encode_value(devices[b], sensor[devices[b].hwid])
                  n    == wordCountOf(devices[b].encoding)
              IN  (/\ b <= last.address
                   /\ last.address + last.count <= b + n
                   /\ full.kind = "ok")
                  => last.ret = Ok(SubSeq(full.words, last.address - b + 1,
                                          last.address - b + last.count))

\* C4: over a block built from N >= 1 bindings, read(0xBEEF, 1) returns
\* the single word N, whatever was read or written before.
C4_MetadataSlot ==
    (IsRead /\ DOMAIN devices # {} /\ last.address = BEEF /\ last.count = 1)
        => last.ret = Ok(<<Cardinality(DOMAIN devices)>>)

\* C5: a read whose window touches no footprint and not the metadata slot
\* returns zeros and raises nothing.
C5_UnmappedReadsZero ==
    (/\ IsRead /\ DOMAIN devices # {}
     /\ \A i \in 0 .. last.count - 1 :
           /\ last.address + i # BEEF
           /\ \A reg \in DOMAIN devices : last.address + i \notin Footprint(devices, reg))
        => last.ret = Ok(Zeros(last.count))

\* C6: a device map with two intersecting footprints never yields a block
\* (and the block is refused for overlap only when footprints intersect).
C6_OverlapRejected ==
    /\ phase = "serving" => ~Overlapping(stream)
    /\ (phase = "crashed" /\ last.ret.exc = "OverlappingBindings")
          => Overlapping(stream)

\* the signed range of w bits
MaxSigned(w) == Num(FALSE, (Pow2(w - 2) - 1) * 2 + 1, 0)
MinSigned(w) == Num(TRUE, 1, w - 1)
WidthOf(encoding) ==
    CASE encoding = "int8" -> 8 [] encoding = "int16" -> 16 [] encoding = "int32" -> 32

\* C7: an integer binding whose truncated reading is outside the signed
\* range returns the words of the nearest bound of the range.
C7_IntegerClamps ==
    (/\ IsRead /\ Bound(last.address)
     /\ devices[last.address].encoding \in {"int8", "int16", "int32"}
     /\ ~Unavailable(sensor, devices[last.address].hwid))
        => LET b == devices[last.address]
               v == sensor[b.hwid]
               w == WidthOf(b.encoding)
           IN  ~FitsSigned(PyInt(v), w)
                  => last.ret = encode_value(b, IF v.neg THEN MinSigned(w)
                                                ELSE MaxSigned(w))

\* C8: no block is ever built over a binding with an unknown encoding
\* name, and no read of a bound address returns an empty list.
C8_UnknownEncodingRejected ==
    /\ phase = "serving"
          => \A reg \in DOMAIN devices : devices[reg].encoding \in KnownEncodings
    /\ (IsRead /\ Bound(last.address)) => last.ret # Ok(<<>>)

\* C9: a read that raises because the sensor behind the binding is
\* unavailable leaves the block as it was, so every read that follows
\* returns what it would have returned without it.
C9_FailedReadIsLocal ==
    [][ (/\ phase = "serving" /\ last'.op = "read" /\ Bound(last'.address)
         /\ Unavailable(sensor, HwidOf(devices, last'.address))
         /\ last'.ret.kind = "raise")
            => /\ devices' = devices
               /\ values' = values
               /\ \A a \in ReadAddresses, c \in Counts :
                     ReadResult(devices', values', sensor', a, c)
                        = ReadResult(devices, values, sensor, a, c) ]_vars

\* a read of a binding whose sensor is unavailable has just raised, while
\* another binding's sensor is available
C9_Witness ==
    /\ IsRead /\ Bound(last.address)
    /\ Unavailable(sensor, HwidOf(devices, last.address))
    /\ last.ret.kind = "raise"
    /\ \E b \in DOMAIN devices :
          b # last.address /\ ~Unavailable(sensor, HwidOf(devices, b))

\* C10: once the block is built no step changes the bindings; a read
\* changes neither the bindings nor the stored values, and a write changes
\* nothing but the stored values.
C10_BindingsFrozen ==
    [][ phase = "serving"
            => /\ devices' = devices
               /\ last'.op = "read" => values' = values
               /\ last'.op = "write" => UNCHANGED <<program, phase, stream, sensor>> ]_vars

\* a read has returned a value after an earlier write put words in the
\* store at the metadata address
C10_Witness ==
    /\ IsRead /\ last.ret.kind # "raise"
    /\ Written(BEEF)
    /\ DOMAIN devices # {}

====
